---- MODULE Spec2Model ----
(***************************************************************************)
(* Model of SPOTection: the calibration editor                             *)
(* (complete_calibration_tool.py), the layout files it shares with the     *)
(* inference pass (spotection_system.py) and the web API                   *)
(* (webapp/spotection_web_api.py).                                         *)
(***************************************************************************)
EXTENDS Integers, Sequences, FiniteSets, TLC

\* ------------------------------------------------------------------------
\* Bounds
\* ------------------------------------------------------------------------
\* Largest number of spots the editor is driven to in the model.
MaxSpots == 2

\* ------------------------------------------------------------------------
\* Data: points, layout entries, files
\* ------------------------------------------------------------------------
\* Pixel coordinates the mouse is clicked at.
ClickPoints == {<<0, 0>>, <<4, 2>>}

\* A JSON object of a layout: the keys it has, and their values.  A key the
\* object lacks is absent from "keys" (its value field is then unused).
Entry(id, polygon) == [keys |-> {"id", "polygon"}, id |-> id, polygon |-> polygon]

EntryNoId(polygon) == [keys |-> {"polygon"}, id |-> "", polygon |-> polygon]

EntryNoPolygon(id) == [keys |-> {"id"}, id |-> id, polygon |-> <<>>]

\* f"spot_{spot_counter}"
SpotId(n) == "spot_" \o ToString(n)

\* A file: absent, or a JSON text.  The text of a layout is a '[', the
\* entries written so far, and the closing ']' ("complete"); json.load
\* raises on a text that is not complete.
NoFile == [exists |-> FALSE, items |-> <<>>, complete |-> FALSE]

FileOf(items) == [exists |-> TRUE, items |-> items, complete |-> TRUE]

Truncated == [exists |-> TRUE, items |-> <<>>, complete |-> FALSE]

Square == <<<<0, 0>>, <<4, 0>>, <<4, 4>>, <<0, 4>>>>

Square2 == <<<<4, 0>>, <<8, 0>>, <<8, 4>>, <<4, 4>>>>

TwoPoints == <<<<0, 0>>, <<1, 0>>>>

\* The contents data/spot_layout.json can have when a session starts.
InitialLayouts ==
    { NoFile,
      Truncated,
      FileOf(<<>>),
      FileOf(<<Entry("spot_1", Square)>>),
      FileOf(<<Entry("spot_2", Square)>>),
      FileOf(<<Entry("spot_1", Square), Entry("spot_2", Square2)>>),
      FileOf(<<Entry("s1", TwoPoints)>>),
      FileOf(<<EntryNoId(Square)>>),
      FileOf(<<EntryNoPolygon("spot_1")>>) }

VARIABLES
    spots,            \* complete_lot_calibration: spots
    current_polygon,  \* complete_lot_calibration: current_polygon
    spot_counter,     \* complete_lot_calibration: spot_counter
    session,          \* "init", "running", "saved", "quit", "crashed"
    layoutFile,       \* data/spot_layout.json
    completeFile,     \* data/spot_layout_complete.json
    lastOp,           \* the command of the last step, and its click point
    loaded,           \* the layout read at session start (<<>> when none)
    loadOk,           \* whether the load at session start succeeded
    base,             \* the Registry when the pending buffer was last empty
    keyed,            \* a key command came since the pending buffer was empty
    fresh,            \* the last step completed a spot by 4 clicks in a row
    undone,           \* an undo has removed a spot in this session
    spots_data,       \* quick_fix_detection: spots_data
    all_detections,   \* quick_fix_detection: all_detections
    vehicle_detections, \* quick_fix_detection: vehicle_detections
    results_data,     \* quick_fix_detection: results_data
    geos,             \* what this build's GEOS does with an invalid polygon
    inferPc,          \* "idle", "done", "crashed"
    config,           \* config.json
    evalPolygon,      \* the spot polygon of one overlap evaluation
    evalBox,          \* the detection box of one overlap evaluation
    evalRatio,        \* the ratio computed for them
    evalPc,           \* "off", "ready", "done"
    savePc,           \* where the editor is in 's': "none", "complete", "layout"
    calPc,            \* calibrate_lot: "idle", "writing"
    calData,          \* calibrate_lot: spot_data
    observed,         \* what the last reader of data/spot_layout.json got
    versions,         \* the collections saved to data/spot_layout.json so far
    active_connections, \* ConnectionManager: active_connections
    accepted,         \* the websockets accepted so far
    broken,           \* the websockets on which send_json raises
    inbox,            \* the messages each websocket's client has received
    overridePc,       \* manual_override: "idle", "broadcasting"
    bcIndex,          \* broadcast: the position of the list iterator
    bcMessage,        \* broadcast: message
    response,         \* the last answer of manual_override, with its status
    overrides,        \* the overrides broadcast so far
    handlerPc,        \* websocket_endpoint of each websocket: "none",
                      \* "running", "ended" (break), "closed" (disconnect),
                      \* "error" (disconnect raised ValueError)
    updates,          \* the periodic updates sent so far
    bcStart,          \* active_connections when the broadcast started
    bcSent,           \* how often this broadcast's send got through, per websocket
    bcFailed          \* the websockets on which this broadcast's send raised

editorVars == <<spots, current_polygon, spot_counter, session, layoutFile,
                completeFile, lastOp, loaded, loadOk, base, keyed, fresh, undone>>

inferVars == <<spots_data, all_detections, vehicle_detections, results_data,
               geos, inferPc, config>>

saveVars == <<savePc, calPc, calData, observed, versions>>

evalVars == <<evalPolygon, evalBox, evalRatio, evalPc>>

webVars == <<active_connections, accepted, broken, inbox, overridePc, bcIndex,
             bcMessage, response, overrides, handlerPc, updates, bcStart,
             bcSent, bcFailed>>

vars == <<editorVars, inferVars, saveVars, evalVars, webVars>>

\* The record of a step: the command, the point clicked (clicks only), and
\* what the editor held when the command arrived.
Op(name, p) ==
    [op |-> name, pt |-> p, fresh |-> fresh,
     pending |-> Len(current_polygon), nspots |-> Len(spots)]

NoOp == [op |-> "none", pt |-> <<0, 0>>, fresh |-> FALSE, pending |-> 0, nspots |-> 0]

\* ------------------------------------------------------------------------
\* Calibration editor
\* ------------------------------------------------------------------------
\* json.load(f) on the file: the parsed list, or an exception.
CanLoad(file) == file.exists /\ file.complete

\* draw_interface reads spot["polygon"] and spot["id"] of every spot and
\* takes the mean of the polygon's coordinates: it raises on an entry
\* without one of the keys or with an empty polygon.
DrawRaises(ss) ==
    \E i \in 1..Len(ss) :
        \/ ss[i].keys # {"id", "polygon"}
        \/ Len(ss[i].polygon) = 0

\* No calibration session: the editor's variables at rest.
EditorIdle(state) ==
    /\ spots = <<>>
    /\ current_polygon = <<>>
    /\ spot_counter = 1
    /\ session = state
    /\ completeFile = NoFile
    /\ lastOp = NoOp
    /\ loaded = <<>>
    /\ loadOk = FALSE
    /\ base = <<>>
    /\ keyed = FALSE
    /\ fresh = FALSE
    /\ undone = FALSE

\* create_sample_config: "overlap_threshold": 0.15, as a ratio.
SampleConfig == [overlap_threshold |-> <<15, 100>>]

\* config.json as written by the setup, and as tuned for a deployment.
Configs == {SampleConfig, [overlap_threshold |-> <<50, 100>>]}

\* No inference pass: the variables of quick_fix_detection at rest.
InferIdle(pc) ==
    /\ spots_data = <<>>
    /\ all_detections = <<>>
    /\ vehicle_detections = <<>>
    /\ results_data = <<>>
    /\ geos = [raise |-> FALSE, area2 |-> 0]
    /\ inferPc = pc

\* No overlap evaluation on its own.
EvalIdle ==
    /\ evalPolygon = <<>>
    /\ evalBox = <<0, 0, 0, 0>>
    /\ evalRatio = <<0, 1>>
    /\ evalPc = "off"

\* The websockets clients open on /ws.
Sockets == {"ws1", "ws2"}

NoMessage == [type |-> "none", lot_id |-> "", spot_id |-> "", status |-> ""]

NoResponse == [code |-> 0, status |-> ""]

\* The web server with no connection and no request handled.
WebIdle ==
    /\ active_connections = <<>>
    /\ accepted = {}
    /\ broken = {}
    /\ inbox = [ws \in Sockets |-> <<>>]
    /\ overridePc = "idle"
    /\ bcIndex = 0
    /\ bcMessage = NoMessage
    /\ response = NoResponse
    /\ overrides = 0
    /\ handlerPc = [ws \in Sockets |-> "none"]
    /\ updates = 0
    /\ bcStart = <<>>
    /\ bcSent = [ws \in Sockets |-> 0]
    /\ bcFailed = {}

NotRead == [by |-> "none", file |-> NoFile]

\* No save in progress and no reader.
SaveIdle ==
    /\ savePc = "none"
    /\ calPc = "idle"
    /\ calData = <<>>
    /\ observed = NotRead
    /\ versions = {}

EditorInit ==
    /\ EditorIdle("init")
    /\ layoutFile \in InitialLayouts
    /\ InferIdle("off")
    /\ config = SampleConfig
    /\ SaveIdle
    /\ EvalIdle
    /\ WebIdle

\* LoadExisting with the loaded list dropped (spots.extend left out).
LoadExistingDropped(file) == <<>>

\* Lines 35-47 and the first draw_interface of the main loop.
LoadExisting(file) ==
    IF CanLoad(file) THEN file.items ELSE <<>>

StartSession ==
    /\ UNCHANGED <<inferVars, saveVars, evalVars, webVars>>
    /\ session = "init"
    /\ spots' = LoadExisting(layoutFile)
    /\ spot_counter' = Len(spots') + 1
    /\ loaded' = IF CanLoad(layoutFile) THEN layoutFile.items ELSE <<>>
    /\ loadOk' = CanLoad(layoutFile)
    /\ base' = spots'
    /\ session' = IF DrawRaises(spots') THEN "crashed" ELSE "running"
    /\ lastOp' = Op("start", <<0, 0>>)
    /\ UNCHANGED <<current_polygon, layoutFile, completeFile, keyed, fresh, undone>>

\* NewSpot committing the buffer without the point just clicked.
NewSpotWithoutLastPoint(counter, polygon) ==
    Entry(SpotId(counter), SubSeq(polygon, 1, Len(polygon) - 1))

\* mouse_callback, the spot it commits on the 4th point.
NewSpot(counter, polygon) == Entry(SpotId(counter), polygon)

\* mouse_callback(EVENT_LBUTTONDOWN, x, y)
AddPoint ==
    /\ UNCHANGED <<inferVars, saveVars, evalVars, webVars>>
    /\ session = "running"
    /\ Len(spots) < MaxSpots
    /\ \E p \in ClickPoints :
        LET pending == Append(current_polygon, p) IN
        /\ lastOp' = Op("click", p)
        /\ IF Len(pending) = 4
           THEN /\ spots' = Append(spots, NewSpot(spot_counter, pending))
                /\ current_polygon' = <<>>
                /\ spot_counter' = spot_counter + 1
                /\ fresh' = ~keyed
           ELSE /\ current_polygon' = pending
                /\ fresh' = FALSE
                /\ UNCHANGED <<spots, spot_counter>>
        /\ base' = IF current_polygon = <<>> THEN spots ELSE base
        /\ keyed' = IF current_polygon = <<>> THEN FALSE ELSE keyed
    /\ UNCHANGED <<session, layoutFile, completeFile, loaded, loadOk, undone>>

\* ResetCurrent clearing the Registry along with the pending buffer.
ResetCurrentAndSpots ==
    /\ UNCHANGED <<inferVars, saveVars, evalVars, webVars>>
    /\ session = "running"
    /\ current_polygon' = <<>>
    /\ spots' = <<>>
    /\ spot_counter' = 1
    /\ lastOp' = Op("reset", <<0, 0>>)
    /\ keyed' = TRUE
    /\ fresh' = FALSE
    /\ UNCHANGED <<session, layoutFile, completeFile, loaded, loadOk, base, undone>>

\* key 'r'
ResetCurrent ==
    /\ UNCHANGED <<inferVars, saveVars, evalVars, webVars>>
    /\ session = "running"
    /\ current_polygon' = <<>>
    /\ lastOp' = Op("reset", <<0, 0>>)
    /\ keyed' = TRUE
    /\ fresh' = FALSE
    /\ UNCHANGED <<spots, spot_counter, session, layoutFile, completeFile,
                   loaded, loadOk, base, undone>>

\* PopLast removing the oldest spot (spots.pop(0)).
PopFirst(ss) == SubSeq(ss, 2, Len(ss))

\* spots.pop()
PopLast(ss) == SubSeq(ss, 1, Len(ss) - 1)

\* CanUndo without the emptiness test.
CanUndoAlways(ss) == TRUE

\* key 'u', line 170: if len(spots) > 0
CanUndo(ss) == Len(ss) > 0

\* key 'u'
\* The undo leaving spot_counter as it is.
CounterKept(counter) == counter

\* Line 172: spot_counter -= 1.
CounterAfterUndo(counter) == counter - 1

UndoLastSpot ==
    /\ UNCHANGED <<inferVars, saveVars, evalVars, webVars>>
    /\ session = "running"
    /\ IF CanUndo(spots)
       THEN /\ spots' = PopLast(spots)
            /\ spot_counter' = CounterAfterUndo(spot_counter)
            /\ undone' = TRUE
            /\ lastOp' = Op("undo", <<0, 0>>)
       ELSE /\ lastOp' = Op("undo", <<0, 0>>)
            /\ UNCHANGED <<spots, spot_counter, undone>>
    /\ keyed' = TRUE
    /\ fresh' = FALSE
    /\ UNCHANGED <<current_polygon, session, layoutFile, completeFile,
                   loaded, loadOk, base>>

\* json.dump(spots, f) into a file opened with 'w', run to its end.
Dump(ss) == FileOf(ss)

\* CanSave without the emptiness test.
CanSaveAlways(ss) == TRUE

\* key 's', line 153: if len(spots) > 0
CanSave(ss) == Len(ss) > 0

\* key 's'
SaveAndExit ==
    /\ UNCHANGED <<inferVars, saveVars, evalVars, webVars>>
    /\ session = "running"
    /\ IF CanSave(spots)
       THEN /\ completeFile' = Dump(spots)
            /\ layoutFile' = Dump(spots)
            /\ session' = "saved"
            /\ lastOp' = Op("save", <<0, 0>>)
       ELSE /\ lastOp' = Op("save", <<0, 0>>)
            /\ UNCHANGED <<completeFile, layoutFile, session>>
    /\ keyed' = TRUE
    /\ fresh' = FALSE
    /\ UNCHANGED <<spots, current_polygon, spot_counter, loaded, loadOk, base, undone>>

\* key 'q'
QuitWithoutSaving ==
    /\ UNCHANGED <<inferVars, saveVars, evalVars, webVars>>
    /\ session = "running"
    /\ session' = "quit"
    /\ lastOp' = Op("quit", <<0, 0>>)
    /\ keyed' = TRUE
    /\ fresh' = FALSE
    /\ UNCHANGED <<spots, current_polygon, spot_counter, layoutFile, completeFile,
                   loaded, loadOk, base, undone>>

\* ------------------------------------------------------------------------
\* Properties of the calibration editor
\* ------------------------------------------------------------------------
IsPrefix(a, b) == Len(a) <= Len(b) /\ SubSeq(b, 1, Len(a)) = a

\* C1: four consecutive clicks from an empty pending buffer, with no key
\* command in between, append exactly one spot whose polygon is the four
\* clicked points in click order, leave the earlier spots as they were and
\* empty the pending buffer; each of the first three clicks only appends its
\* point to the pending buffer and leaves the Registry and the counter alone.
C1_FourClicksAddOneSpot ==
    [][ lastOp'.op = "click" =>
          /\ Len(current_polygon) < 3 =>
                /\ current_polygon' = Append(current_polygon, lastOp'.pt)
                /\ spots' = spots
                /\ spot_counter' = spot_counter
          /\ (Len(current_polygon) = 3 /\ ~keyed) =>
                /\ Len(spots') = Len(base) + 1
                /\ SubSeq(spots', 1, Len(base)) = base
                /\ spots'[Len(spots')].polygon = Append(current_polygon, lastOp'.pt)
                /\ current_polygon' = <<>> ]_vars

\* A spot has just been committed by four clicks in a row on top of a
\* Registry that already held a spot.
C1_Witness ==
    /\ lastOp.op = "click"
    /\ fresh
    /\ Len(base) >= 1
    /\ Len(spots) = Len(base) + 1

\* C2: an undo right after the 4th click of a spot leaves the Registry equal
\* to what it was before the four clicks.
C2_UndoRemovesExactlyLastSpot ==
    (lastOp.op = "undo" /\ lastOp.fresh) => spots = base

\* An undo has come right after a 4-click commit, and earlier spots remain.
C2_Witness ==
    /\ lastOp.op = "undo"
    /\ lastOp.fresh
    /\ Len(spots) >= 1

\* C3: 'r' empties the pending buffer and leaves the Registry and the
\* next-id counter alone; with an empty buffer it changes nothing.
C3_ResetOnlyClearsPending ==
    [][ lastOp'.op = "reset" =>
          /\ current_polygon' = <<>>
          /\ spots' = spots
          /\ spot_counter' = spot_counter
          /\ current_polygon = <<>> =>
                UNCHANGED <<spots, current_polygon, spot_counter, session,
                            layoutFile, completeFile>> ]_vars

\* A reset has discarded pending points while the Registry held spots.
C3_Witness ==
    /\ lastOp.op = "reset"
    /\ lastOp.pending > 0
    /\ Len(spots) > 0

\* C4: 's' with an empty Registry writes no file and does not end the
\* session; no step of the editor puts an empty collection into a layout
\* file; 's' with a non-empty Registry writes the whole ordered collection
\* to both files and ends the session.
C4_EmptyLayoutNeverSaved ==
    [][ /\ (lastOp'.op = "save" /\ Len(spots) = 0) =>
              /\ UNCHANGED <<layoutFile, completeFile, spots>>
              /\ session' = "running"
        /\ (lastOp'.op = "save" /\ Len(spots) > 0) =>
              /\ layoutFile' = FileOf(spots)
              /\ completeFile' = FileOf(spots)
              /\ session' = "saved"
        /\ layoutFile' # layoutFile => Len(layoutFile'.items) > 0
        /\ completeFile' # completeFile => Len(completeFile'.items) > 0 ]_vars

\* A save was refused on an empty Registry while the layout file still holds
\* the spots of an earlier session.
C4_Witness ==
    /\ lastOp.op = "save"
    /\ lastOp.nspots = 0
    /\ session = "running"
    /\ Len(layoutFile.items) > 0

\* C5: 'u' on an empty Registry leaves the Registry empty, the counter and
\* the pending buffer as they were, and the session running.
C5_UndoOnEmptyIsHarmless ==
    [][ (lastOp'.op = "undo" /\ Len(spots) = 0) =>
          /\ spots' = <<>>
          /\ spot_counter' = spot_counter
          /\ current_polygon' = current_polygon
          /\ session' = "running" ]_vars

\* An undo arrived on an empty Registry while points were pending.
C5_Witness ==
    /\ lastOp.op = "undo"
    /\ lastOp.nspots = 0
    /\ lastOp.pending > 0
    /\ session = "running"

\* C6: in a session started from a saved layout, as long as no undo removed
\* a spot, that layout is a prefix of the Registry, and a save writes the
\* Registry (the layout followed by the new spots).
C6_MergeOnLoad ==
    (loadOk /\ ~undone /\ session \in {"running", "saved"}) =>
        /\ IsPrefix(loaded, spots)
        /\ session = "saved" =>
              /\ layoutFile = FileOf(spots)
              /\ completeFile = FileOf(spots)

\* A session loaded a layout, added a spot and saved.
C6_Witness ==
    /\ loadOk
    /\ ~undone
    /\ session = "saved"
    /\ Len(loaded) >= 1
    /\ Len(layoutFile.items) > Len(loaded)

IdsDistinct(ss) ==
    \A i, j \in 1..Len(ss) : i # j => ss[i].id # ss[j].id

\* C7: in a session started from a layout of pairwise distinct ids, no two
\* spots of the Registry ever have the same id.
C7_IdsUnique ==
    (session \in {"running", "saved", "quit"} /\ IdsDistinct(loaded)) => IdsDistinct(spots)

\* An entry of a layout is well formed: both keys, and a polygon of at least
\* 3 distinct points.
WellFormedEntry(e) ==
    /\ e.keys = {"id", "polygon"}
    /\ Cardinality({e.polygon[i] : i \in 1..Len(e.polygon)}) >= 3

\* C8: a layout with a malformed entry is never accepted into the Registry
\* of the calibration editor: when the session runs after the load, every
\* spot of the Registry is well formed.
C8_MalformedLayoutRejected ==
    (lastOp.op = "start" /\ session = "running") => \A i \in 1..Len(spots) : WellFormedEntry(spots[i])

\* The points of a polygon are pairwise distinct.
PointsDistinct(polygon) ==
    \A i, j \in 1..Len(polygon) : polygon[i] = polygon[j] => i = j

\* C18: every spot the editor commits to the Registry has a polygon of
\* pairwise distinct points: the spot a fourth click appends never contains
\* the same point twice.
C18_CommittedPolygonPointsDistinct ==
    [][(lastOp'.op = "click" /\ Len(spots') = Len(spots) + 1) =>
          PointsDistinct(spots'[Len(spots')].polygon)]_vars

\* The step is a fourth click that commits a spot.
Commits == lastOp'.op = "click" /\ Len(spots') = Len(spots) + 1

\* The step is an undo that removes a spot.
Removes == lastOp'.op = "undo" /\ Len(spots') = Len(spots) - 1

\* The counter is the number of spots plus one, and a committed spot at
\* position i carries the id spot_i.
CounterTracksRegistry ==
    /\ [](spot_counter = Len(spots) + 1)
    /\ [][Commits => spots'[Len(spots')].id = SpotId(Len(spots'))]_vars

\* C21 as claimed: the next-id counter is always the number of spots plus
\* one, a spot committed at position i carries the id spot_i, and the id
\* the counter holds after an undo, which the next spot receives, is the id
\* of the spot the undo removed.
C21_UndoReusesRemovedId ==
    /\ CounterTracksRegistry
    /\ [][Removes => SpotId(spot_counter') = spots[Len(spots)].id]_vars

\* C21, amended: the next-id counter is always the number of spots plus
\* one, a spot committed at position i carries the id spot_i, and the id
\* the counter holds after an undo, which the next spot receives, is spot_i
\* for the position i of the removed spot: the id of the removed spot
\* whenever that spot carried spot_i, as every spot committed by the editor
\* does.
C21_UndoReusesPositionId ==
    /\ CounterTracksRegistry
    /\ [][Removes =>
            /\ SpotId(spot_counter') = SpotId(Len(spots))
            /\ spots[Len(spots)].id = SpotId(Len(spots)) =>
                  SpotId(spot_counter') = spots[Len(spots)].id]_vars

\* After an undo in the session, a fourth click has committed a spot that
\* carries the id of its position.
C21_Witness ==
    /\ lastOp.op = "click"
    /\ Len(spots) = lastOp.nspots + 1
    /\ undone
    /\ spot_counter = Len(spots) + 1
    /\ spots[Len(spots)].id = SpotId(Len(spots))

\* ------------------------------------------------------------------------
\* Inference pass (quick_fix_detection)
\* ------------------------------------------------------------------------
\* Largest number of boxes the detector returns in the model.
MaxDets == 2

Min(a, b) == IF a <= b THEN a ELSE b

Max(a, b) == IF a >= b THEN a ELSE b

Abs(a) == IF a >= 0 THEN a ELSE -a

\* Polygons of a layout handed to the pass: two rectangles, a polygon of
\* two points, a self-intersecting one and one of zero area.
Bowtie == <<<<0, 0>>, <<4, 4>>, <<4, 0>>, <<0, 4>>>>

Flat == <<<<0, 0>>, <<4, 0>>, <<2, 0>>, <<1, 0>>>>

\* A spot of 100 x 100 pixels, and one of 102 x 100.
Hundred == <<<<0, 0>>, <<100, 0>>, <<100, 100>>, <<0, 100>>>>

Wide == <<<<0, 0>>, <<102, 0>>, <<102, 100>>, <<0, 100>>>>

InferLayouts ==
    { NoFile,
      FileOf(<<>>),
      FileOf(<<Entry("spot_1", Square), Entry("spot_2", Square2)>>),
      FileOf(<<Entry("spot_1", Square), Entry("s1", TwoPoints), Entry("spot_3", Square2)>>),
      FileOf(<<Entry("spot_1", Bowtie), Entry("spot_2", Square2)>>),
      FileOf(<<Entry("spot_1", Flat), Entry("spot_2", Square)>>),
      FileOf(<<Entry("spot_1", Square), EntryNoId(Square2)>>),
      FileOf(<<Entry("spot_1", Hundred), Entry("spot_2", Wide)>>) }

\* Boxes (x1, y1, x2, y2) the detector returns: inside Square, across the
\* edge between Square and Square2, away from both, and over one pixel of
\* the corner of Hundred.
DetBoxes == {<<1, 1, 3, 3>>, <<3, 1, 6, 3>>, <<20, 20, 22, 22>>, <<99, 99, 109, 109>>}

\* model.names[cls_id]
DetClasses == {"car", "person"}

\* Confidences in percent; the model is run with conf=0.1, so none is lower.
DetConfidences == {10, 80}

RawDetection == [class : DetClasses, confidence : DetConfidences, bbox : DetBoxes]

RawDetectionLists == UNION {[1..n -> RawDetection] : n \in 0..MaxDets}

GeosOutcomes == [raise : BOOLEAN, area2 : {0, 4}]

\* Line 31
vehicle_classes == {"car", "truck", "bus", "van", "motorcycle", "bicycle"}

NoDetection == [id |-> -1, class |-> "None", confidence |-> 0, bbox |-> <<0, 0, 0, 0>>]

\* Lines 33-47: the detection records, numbered in detector output order.
AllDetections(raw) ==
    [i \in 1..Len(raw) |->
        [id |-> i - 1, class |-> raw[i].class,
         confidence |-> raw[i].confidence, bbox |-> raw[i].bbox]]

\* Line 50
IsVehicle(det) == det.class \in vehicle_classes /\ det.confidence > 10

\* Lines 49-51: the detections kept for the primary pass, in order.
RECURSIVE VehicleDetections(_)
VehicleDetections(dets) ==
    IF dets = <<>> THEN <<>>
    ELSE IF IsVehicle(Head(dets))
         THEN <<Head(dets)>> \o VehicleDetections(Tail(dets))
         ELSE VehicleDetections(Tail(dets))

\* shapely box(x1, y1, x2, y2).area
BoxArea(b) == (b[3] - b[1]) * (b[4] - b[2])

\* Twice the area of shapely Polygon(coords): the shoelace sum of the ring.
RECURSIVE Shoelace(_, _)
Shoelace(poly, i) ==
    IF i > Len(poly) THEN 0
    ELSE LET a == poly[i]
             b == poly[IF i = Len(poly) THEN 1 ELSE i + 1]
         IN  a[1] * b[2] - b[1] * a[2] + Shoelace(poly, i + 1)

Area2(poly) == Abs(Shoelace(poly, 1))

\* <<min x, min y, max x, max y>> of a polygon.
Bounds(poly) ==
    LET xs == {poly[i][1] : i \in 1..Len(poly)}
        ys == {poly[i][2] : i \in 1..Len(poly)}
    IN  << CHOOSE x \in xs : \A o \in xs : x <= o,
           CHOOSE y \in ys : \A o \in ys : y <= o,
           CHOOSE x \in xs : \A o \in xs : x >= o,
           CHOOSE y \in ys : \A o \in ys : y >= o >>

\* The polygon is an axis-aligned rectangle of positive area, its corners in
\* ring order.
IsRectangle(poly) ==
    /\ Len(poly) = 4
    /\ LET b == Bounds(poly) IN
        /\ b[1] < b[3] /\ b[2] < b[4]
        /\ {poly[i] : i \in 1..4} = {<<b[1], b[2]>>, <<b[3], b[2]>>, <<b[3], b[4]>>, <<b[1], b[4]>>}
        /\ \A i \in 1..4 :
              LET a == poly[i]
                  c == poly[IF i = 4 THEN 1 ELSE i + 1]
              IN  (a[1] = c[1]) # (a[2] = c[2])

\* All points of the polygon lie on one line.
Collinear(poly) ==
    \A i, j, k \in 1..Len(poly) :
        (poly[j][1] - poly[i][1]) * (poly[k][2] - poly[i][2])
            = (poly[k][1] - poly[i][1]) * (poly[j][2] - poly[i][2])

\* Area of the intersection of two axis-aligned rectangles.
RectOverlap(a, b) ==
    Max(0, Min(a[3], b[3]) - Max(a[1], b[1])) * Max(0, Min(a[4], b[4]) - Max(a[2], b[2]))

\* Line 86 and line 141: Polygon(coords) raises on 1 or 2 points, and
\* polygon_coords[0] raises on none.
PolygonRaises(poly) == Len(poly) < 3

\* Lines 94, 104: spot_polygon.intersection(det['box']) raises on an invalid
\* polygon when this build's GEOS does.
IntersectionRaises(poly, g) == ~IsRectangle(poly) /\ g.raise

\* Lines 94-95, 104-105: twice intersection.area.  Exact for a rectangle;
\* zero for a polygon on a line; what this build's GEOS returns otherwise.
InterArea2(poly, bbox, g) ==
    IF IsRectangle(poly) THEN 2 * RectOverlap(Bounds(poly), bbox)
    ELSE IF Collinear(poly) THEN 0
    ELSE g.area2

\* Ratios are kept as <<numerator, denominator>>, denominator > 0.
RatioGt(a, b) == a[1] * b[2] > b[1] * a[2]

ZeroRatio == <<0, 1>>

\* Line 112: threshold = 0.01
threshold == <<1, 100>>

\* OverlapRatio with the intersection divided by the area of the spot.
OverlapRatioOfSpot(poly, bbox, g) ==
    LET area == InterArea2(poly, bbox, g) IN
    IF area > 0 THEN <<area, Area2(poly)>> ELSE ZeroRatio

\* Lines 94-96, 104-106: the overlap ratio of one spot and one box, zero
\* when the intersection has no area.
OverlapRatio(poly, bbox, g) ==
    LET area == InterArea2(poly, bbox, g) IN
    IF area > 0 THEN <<area, Min(Area2(poly), 2 * BoxArea(bbox))>> ELSE ZeroRatio

\* Replaces letting a detection of equal ratio take the place of the best.
ReplacesOnTie(overlap_ratio, max_overlap) == ~RatioGt(max_overlap, overlap_ratio)

\* Lines 97, 107: overlap_ratio > max_overlap.
Replaces(overlap_ratio, max_overlap) == RatioGt(overlap_ratio, max_overlap)

\* Lines 93-99 and 103-109: one loop over a detection list, from the
\* current max_overlap and best_detection.
RECURSIVE MatchLoop(_, _, _, _)
MatchLoop(dets, poly, g, acc) ==
    IF dets = <<>> \/ acc.raised THEN acc
    ELSE LET det == Head(dets) IN
         IF IntersectionRaises(poly, g)
         THEN [acc EXCEPT !.raised = TRUE]
         ELSE LET area == InterArea2(poly, det.bbox, g)
                  den == Min(Area2(poly), 2 * BoxArea(det.bbox))
                  next ==
                      IF area > 0
                      THEN IF den = 0
                           THEN [acc EXCEPT !.raised = TRUE]
                           ELSE IF Replaces(OverlapRatio(poly, det.bbox, g), acc.max_overlap)
                                THEN [acc EXCEPT !.max_overlap = OverlapRatio(poly, det.bbox, g),
                                                 !.best_detection = det]
                                ELSE acc
                      ELSE acc
              IN  MatchLoop(Tail(dets), poly, g, next)

\* StatusAt with the comparison turned around.
StatusAtReversed(max_overlap, t) ==
    IF RatioGt(t, max_overlap) THEN "OCCUPIED" ELSE "FREE"

\* Lines 114-119, for a value t of the literal of line 112.
StatusAt(max_overlap, t) ==
    IF RatioGt(max_overlap, t) THEN "OCCUPIED" ELSE "FREE"

\* Status with the threshold itself counted as exceeded.
StatusInclusive(max_overlap) ==
    IF ~RatioGt(threshold, max_overlap) THEN "OCCUPIED" ELSE "FREE"

\* Lines 111-119
Status(max_overlap) == StatusAt(max_overlap, threshold)

\* NeedsFallback taking any overlap up to the threshold for no overlap.
NeedsFallbackUpToThreshold(max_overlap) == ~RatioGt(max_overlap, threshold)

\* Line 102: if max_overlap == 0
NeedsFallback(max_overlap) == max_overlap[1] = 0

\* Lines 85-153 for one spot: whether the body raised, and the dict it
\* appends to results_data otherwise.  "matched" is the id of
\* best_detection and "fallback" tells whether the loop over all detections
\* ran; the dict of the code has neither.
AnalyzeSpot(spot, vehicles, dets, g) ==
    IF PolygonRaises(spot.polygon)
    THEN [raised |-> TRUE, result |-> <<>>]
    ELSE LET start == [max_overlap |-> ZeroRatio, best_detection |-> NoDetection,
                       raised |-> FALSE]
             primary == MatchLoop(vehicles, spot.polygon, g, start)
             second == ~primary.raised /\ NeedsFallback(primary.max_overlap)
             final == IF second
                      THEN MatchLoop(dets, spot.polygon, g, primary)
                      ELSE primary
         IN  [raised |-> final.raised,
              result |-> [id |-> spot.id,
                          status |-> Status(final.max_overlap),
                          overlap |-> final.max_overlap,
                          detection |-> final.best_detection.class,
                          matched |-> final.best_detection.id,
                          fallback |-> second]]

\* Lines 81-153: except ... continue drops the spot whose body raised.
KeepResult(results, outcome) ==
    IF outcome.raised THEN results ELSE Append(results, outcome.result)

RECURSIVE AnalyzeSpots(_, _, _, _, _)
AnalyzeSpots(ss, vehicles, dets, g, results) ==
    IF ss = <<>> THEN results
    ELSE AnalyzeSpots(Tail(ss), vehicles, dets, g,
                      KeepResult(results, AnalyzeSpot(Head(ss), vehicles, dets, g)))

\* Lines 82-83 are outside the try: a spot without "id" or "polygon" ends
\* the function with a KeyError.
PassRaises(ss) == \E i \in 1..Len(ss) : ss[i].keys # {"id", "polygon"}

InferInit ==
    /\ EditorIdle("off")
    /\ layoutFile \in InferLayouts
    /\ InferIdle("idle")
    /\ config \in Configs
    /\ SaveIdle
    /\ EvalIdle
    /\ WebIdle

\* quick_fix_detection(), on the boxes the detector returns for the image.
RunPass ==
    /\ inferPc = "idle"
    /\ UNCHANGED <<editorVars, saveVars, config, evalVars, webVars>>
    /\ IF ~CanLoad(layoutFile)
       THEN /\ inferPc' = "crashed"
            /\ UNCHANGED <<spots_data, all_detections, vehicle_detections,
                           results_data, geos>>
       ELSE \E raw \in RawDetectionLists, g \in GeosOutcomes :
            /\ spots_data' = layoutFile.items
            /\ all_detections' = AllDetections(raw)
            /\ vehicle_detections' = VehicleDetections(all_detections')
            /\ geos' = g
            /\ IF PassRaises(spots_data')
               THEN /\ inferPc' = "crashed"
                    /\ results_data' = <<>>
               ELSE /\ inferPc' = "done"
                    /\ results_data' =
                          AnalyzeSpots(spots_data', vehicle_detections',
                                       all_detections', g, <<>>)

InferNext == RunPass

SpecInfer == InferInit /\ [][InferNext]_vars

Ids(ss) == [i \in 1..Len(ss) |-> ss[i].id]

\* C10: a pass returns exactly one snapshot per spot of the layout, in
\* layout order.
C10_OneSnapshotPerSpot ==
    inferPc = "done" => Ids(results_data) = Ids(spots_data)

\* The spot of the layout a snapshot is about (the ids of a layout handed
\* to the pass are distinct).
SpotOf(r) == CHOOSE sp \in {spots_data[i] : i \in 1..Len(spots_data)} : sp.id = r.id

Results == {results_data[i] : i \in 1..Len(results_data)}

\* A polygon the overlap cannot be computed for: fewer than 3 points, or no
\* area (the self-intersecting polygon of the layouts above has none).
Degenerate(poly) == Len(poly) < 3 \/ Area2(poly) = 0

\* C11: a spot whose polygon is degenerate, or whose evaluation failed, has
\* a snapshot in the result of the pass, with status UNKNOWN, overlap 0 and
\* no matched detection.
C11_UnknownSnapshotOnFailure ==
    inferPc = "done" =>
        \A i \in 1..Len(spots_data) :
            Degenerate(spots_data[i].polygon) =>
                \E r \in Results :
                    /\ r.id = spots_data[i].id
                    /\ r.status = "UNKNOWN"
                    /\ r.overlap[1] = 0
                    /\ r.detection = "None"

Detections == {all_detections[i] : i \in 1..Len(all_detections)}

\* The box overlaps the polygon by more than the threshold of the pass.
Exceeds(poly, d) == RatioGt(OverlapRatio(poly, d.bbox, geos), threshold)

\* The box and the polygon have some area in common.
Overlaps(poly, d) == InterArea2(poly, d.bbox, geos) > 0

VehicleLike(d) == d.class \in vehicle_classes /\ d.confidence > 10

\* C12 as claimed: a spot is OCCUPIED iff some detection of the list, of any
\* class, overlaps it by more than the threshold; otherwise it is FREE.
C12_OccupiedIffAnyDetectionExceeds ==
    inferPc = "done" =>
        \A r \in Results :
            /\ r.status \in {"OCCUPIED", "FREE"}
            /\ r.status = "OCCUPIED" <=>
                  \E d \in Detections : Exceeds(SpotOf(r).polygon, d)

\* C12, amended: a spot is OCCUPIED iff some vehicle-class detection
\* overlaps it by more than the threshold, or no vehicle-class detection
\* overlaps it at all and some detection of any class overlaps it by more
\* than the threshold; otherwise it is FREE.
C12_OccupiedIffTwoPhaseWinnerExceeds ==
    inferPc = "done" =>
        \A r \in Results :
            LET poly == SpotOf(r).polygon
                vehicles == {d \in Detections : VehicleLike(d)}
            IN  /\ r.status \in {"OCCUPIED", "FREE"}
                /\ r.status = "OCCUPIED" <=>
                      \/ \E d \in vehicles : Exceeds(poly, d)
                      \/ /\ \A d \in vehicles : ~Overlaps(poly, d)
                         /\ \E d \in Detections : Exceeds(poly, d)

\* A spot is FREE although a detection that is not a vehicle overlaps it by
\* more than the threshold: a vehicle overlaps it too, by less.
C12_Witness ==
    /\ inferPc = "done"
    /\ \E r \in Results :
          /\ r.status = "FREE"
          /\ \E d \in Detections :
                ~VehicleLike(d) /\ Exceeds(SpotOf(r).polygon, d)

\* C13: the loop over all detections runs exactly when no vehicle-class
\* detection overlaps the spot; with no vehicle-class detection and a
\* detection of another class over the threshold, the spot is OCCUPIED and
\* its match is such a detection.
C13_FallbackIffNoVehicleOverlap ==
    inferPc = "done" =>
        \A r \in Results :
            LET poly == SpotOf(r).polygon
                vehicles == {d \in Detections : VehicleLike(d)}
            IN  /\ r.fallback <=> \A d \in vehicles : ~Overlaps(poly, d)
                /\ (vehicles = {} /\ \E d \in Detections : Exceeds(poly, d)) =>
                      /\ r.status = "OCCUPIED"
                      /\ \E d \in Detections :
                            /\ d.id = r.matched
                            /\ d.class = r.detection
                            /\ Exceeds(poly, d)

\* No vehicle-class detection, and a spot is OCCUPIED by a person found in
\* the loop over all detections.
C13_Witness ==
    /\ inferPc = "done"
    /\ vehicle_detections = <<>>
    /\ \E r \in Results :
          /\ r.fallback
          /\ r.status = "OCCUPIED"
          /\ r.detection = "person"

\* The list of the matching pass that gave a result: all detections when the
\* second loop ran, the vehicle detections otherwise.
PassList(r) == IF r.fallback THEN all_detections ELSE vehicle_detections

RatioEq(a, b) == a[1] * b[2] = b[1] * a[2]

\* C19: within a matching pass the overlap of a result is the maximum ratio
\* of the list, and the matched detection is the first of the list, in
\* detector output order, whose ratio is that maximum: a later detection of
\* equal ratio does not replace it.  With no overlap there is no match.
C19_FirstMaximumIsMatched ==
    inferPc = "done" =>
        \A r \in Results :
            LET poly == SpotOf(r).polygon
                list == PassList(r)
                ratio(k) == OverlapRatio(poly, list[k].bbox, geos)
            IN  /\ \A k \in 1..Len(list) : ~RatioGt(ratio(k), r.overlap)
                /\ IF r.overlap[1] = 0
                   THEN r.matched = NoDetection.id
                   ELSE \E k \in 1..Len(list) :
                          /\ RatioEq(ratio(k), r.overlap)
                          /\ \A j \in 1..(k - 1) : RatioGt(r.overlap, ratio(j))
                          /\ r.matched = list[k].id
                          /\ r.detection = list[k].class

\* Two detections of the list share the maximum ratio of a spot, and the
\* first of them is the match.
C19_Witness ==
    /\ inferPc = "done"
    /\ \E r \in Results :
          LET poly == SpotOf(r).polygon
              list == PassList(r)
          IN  \E j, k \in 1..Len(list) :
                /\ j < k
                /\ r.overlap[1] > 0
                /\ RatioEq(OverlapRatio(poly, list[j].bbox, geos), r.overlap)
                /\ RatioEq(OverlapRatio(poly, list[k].bbox, geos), r.overlap)
                /\ r.matched = list[j].id

\* The evaluation of the spot raises nothing: the entry has its keys and
\* the geometry of lines 86-109 goes through.
Evaluable(spot) ==
    /\ spot.keys = {"id", "polygon"}
    /\ ~AnalyzeSpot(spot, vehicle_detections, all_detections, geos).raised

\* The snapshot of a spot in a pass over the same detections on its own.
SoloSnapshot(spot) ==
    AnalyzeSpot(spot, vehicle_detections, all_detections, geos).result

\* C20: a failure while evaluating one spot is contained to that spot: a
\* pass on a layout that could be read runs to completion, and its result
\* is, in order, the snapshot each spot without a failure receives on its
\* own; nothing computed for one spot carries over to the next.
C20_FailureContained ==
    (inferPc \in {"done", "crashed"} /\ CanLoad(layoutFile)) =>
        /\ inferPc = "done"
        /\ LET good == SelectSeq(spots_data, Evaluable)
           IN  results_data = [i \in 1..Len(good) |-> SoloSnapshot(good[i])]

\* C14: the decision uses the configured overlap_threshold: a spot with
\* winning ratio r is OCCUPIED iff r exceeds the overlap_threshold of the
\* configuration in force.
C14_ThresholdIsConfigured ==
    inferPc = "done" =>
        \A r \in Results :
            r.status = "OCCUPIED" <=> RatioGt(r.overlap, config.overlap_threshold)

\* Values of the threshold: the literal of line 112, the one of the sample
\* configuration, and a larger one.
Thresholds == {threshold, SampleConfig.overlap_threshold, <<50, 100>>}

\* C15: for the spots and detections of a pass and thresholds t1 <= t2, a
\* spot that is OCCUPIED under t2 is OCCUPIED under t1 (the matching, and so
\* the winning ratio, does not depend on the threshold).
C15_ThresholdMonotone ==
    inferPc = "done" =>
        \A r \in Results :
            /\ r.status = StatusAt(r.overlap, threshold)
            /\ \A t1, t2 \in Thresholds :
                  (~RatioGt(t1, t2) /\ StatusAt(r.overlap, t2) = "OCCUPIED") =>
                      StatusAt(r.overlap, t1) = "OCCUPIED"

\* A spot that is OCCUPIED under the threshold of the pass and FREE under
\* the larger threshold of the sample configuration.
C15_Witness ==
    /\ inferPc = "done"
    /\ \E r \in Results :
          /\ r.status = "OCCUPIED"
          /\ StatusAt(r.overlap, SampleConfig.overlap_threshold) = "FREE"

\* ------------------------------------------------------------------------
\* The overlap ratio of one spot and one box
\* ------------------------------------------------------------------------
\* Largest coordinate of the rectangles the ratio is computed for.
GridMax == 3

\* The polygon of a rectangle, clockwise from the top-left corner.
RectPolygon(b) == <<<<b[1], b[2]>>, <<b[3], b[2]>>, <<b[3], b[4]>>, <<b[1], b[4]>>>>

\* Rectangles (x1, y1, x2, y2) with x1 < x2 and y1 < y2 on the grid, and
\* the rectangles of the scenarios of the specification.
GridBoxes ==
    {b \in (0..GridMax) \X (0..GridMax) \X (0..GridMax) \X (0..GridMax) :
        b[1] < b[3] /\ b[2] < b[4]}

EvalPolygons == {RectPolygon(b) : b \in GridBoxes} \cup {Hundred}

EvalBoxes == GridBoxes \cup {<<40, 40, 60, 60>>, <<200, 200, 250, 250>>}

OverlapInit ==
    /\ EditorIdle("off")
    /\ layoutFile = NoFile
    /\ InferIdle("off")
    /\ config = SampleConfig
    /\ SaveIdle
    /\ evalPolygon \in EvalPolygons
    /\ evalBox \in EvalBoxes
    /\ evalRatio = ZeroRatio
    /\ evalPc = "ready"
    /\ WebIdle

\* Lines 94-96 for one spot polygon and one box.
Evaluate ==
    /\ evalPc = "ready"
    /\ evalRatio' = OverlapRatio(evalPolygon, evalBox, geos)
    /\ evalPc' = "done"
    /\ UNCHANGED <<editorVars, inferVars, saveVars, evalPolygon, evalBox, webVars>>

OverlapNext == Evaluate

SpecOverlap == OverlapInit /\ [][OverlapNext]_vars

\* The closed rectangles have no point in common.
Disjoint(a, b) == b[1] > a[3] \/ b[3] < a[1] \/ b[2] > a[4] \/ b[4] < a[2]

\* The rectangles have no area in common: they are disjoint or only touch
\* along an edge or at a corner.
NoCommonArea(a, b) == b[1] >= a[3] \/ b[3] <= a[1] \/ b[2] >= a[4] \/ b[4] <= a[2]

\* Rectangle b lies within rectangle a.
Within(a, b) == a[1] <= b[1] /\ b[3] <= a[3] /\ a[2] <= b[2] /\ b[4] <= a[4]

RatioInUnitInterval(r) == 0 <= r[1] /\ r[1] <= r[2] /\ r[2] > 0

\* C16 as claimed: the ratio lies in [0,1], is 0 iff spot and box are
\* disjoint, and is 1 for a box within the spot.
C16_RatioZeroIffDisjoint ==
    evalPc = "done" =>
        /\ RatioInUnitInterval(evalRatio)
        /\ evalRatio[1] = 0 <=> Disjoint(Bounds(evalPolygon), evalBox)
        /\ Within(Bounds(evalPolygon), evalBox) => evalRatio[1] = evalRatio[2]

\* C16, amended: the ratio lies in [0,1], is 0 iff spot and box have no
\* area in common (disjoint, or touching along an edge or at a corner), and
\* is 1 for a box within the spot.
C16_RatioZeroIffNoCommonArea ==
    evalPc = "done" =>
        /\ RatioInUnitInterval(evalRatio)
        /\ evalRatio[1] = 0 <=> NoCommonArea(Bounds(evalPolygon), evalBox)
        /\ Within(Bounds(evalPolygon), evalBox) => evalRatio[1] = evalRatio[2]

\* The ratio has been computed as 1 for the box (40,40,60,60) within the
\* spot of 100 x 100.
C16_Witness ==
    /\ evalPc = "done"
    /\ evalPolygon = Hundred
    /\ evalBox = <<40, 40, 60, 60>>
    /\ evalRatio[1] = evalRatio[2]

\* ------------------------------------------------------------------------
\* Saving data/spot_layout.json while other processes read it
\* ------------------------------------------------------------------------
\* Three processes share the file: the calibration editor, the web server
\* (one event loop: a handler without await runs to its end before another
\* starts) and an inference pass.  open(path, 'w') empties the file,
\* json.dump fills the buffer, which reaches the file piece by piece and, at
\* the latest, when the with block closes the file.
SavedLayouts ==
    { <<Entry("spot_1", Square)>>,
      <<Entry("spot_1", Square), Entry("spot_2", Square2)>> }

\* POST /api/lots/{lot_id}/calibrate bodies.
CalibrateBodies ==
    { <<Entry("A1", Square2)>>,
      <<Entry("A1", Square2), Entry("A2", Square)>> }

SaveInit ==
    /\ spots \in SavedLayouts
    /\ current_polygon = <<>>
    /\ spot_counter = Len(spots) + 1
    /\ session = "running"
    /\ completeFile = NoFile
    /\ lastOp = NoOp
    /\ loaded = <<>>
    /\ loadOk = FALSE
    /\ base = spots
    /\ keyed = FALSE
    /\ fresh = FALSE
    /\ undone = FALSE
    /\ \E prev \in SavedLayouts :
          /\ layoutFile = FileOf(prev)
          /\ versions = {prev}
    /\ InferIdle("off")
    /\ config = SampleConfig
    /\ savePc = "none"
    /\ calPc = "idle"
    /\ calData = <<>>
    /\ observed = NotRead
    /\ EvalIdle
    /\ WebIdle

\* open(path, 'w')
OpenForWrite == Truncated

\* One more piece of the dump reaches the file.
Flush(file, data) == [file EXCEPT !.items = Append(file.items, data[Len(file.items) + 1])]

editorRest == <<spots, current_polygon, spot_counter, lastOp, loaded, loadOk,
                base, keyed, fresh, undone>>

\* key 's', line 154: open(output_json, 'w')
SaveOpenComplete ==
    /\ session = "running"
    /\ savePc = "none"
    /\ CanSave(spots)
    /\ completeFile' = OpenForWrite
    /\ savePc' = "complete"
    /\ UNCHANGED <<editorRest, session, layoutFile, inferVars, evalVars, webVars, calPc, calData,
                   observed, versions>>

\* Line 155
SaveFlushComplete ==
    /\ savePc = "complete"
    /\ Len(completeFile.items) < Len(spots)
    /\ completeFile' = Flush(completeFile, spots)
    /\ UNCHANGED <<editorRest, session, layoutFile, inferVars, evalVars, webVars, saveVars>>

\* Lines 155-159: the first with block ends, open("data/spot_layout.json", 'w')
SaveOpenLayout ==
    /\ savePc = "complete"
    /\ calPc = "idle"
    /\ completeFile' = Dump(spots)
    /\ layoutFile' = OpenForWrite
    /\ versions' = versions \cup {spots}
    /\ savePc' = "layout"
    /\ UNCHANGED <<editorRest, session, inferVars, evalVars, webVars, calPc, calData, observed>>

\* Line 160
SaveFlushLayout ==
    /\ savePc = "layout"
    /\ Len(layoutFile.items) < Len(spots)
    /\ layoutFile' = Flush(layoutFile, spots)
    /\ UNCHANGED <<editorRest, session, completeFile, inferVars, evalVars, webVars, saveVars>>

\* Lines 160-163: the second with block ends, break
SaveCloseLayout ==
    /\ savePc = "layout"
    /\ layoutFile' = Dump(spots)
    /\ session' = "saved"
    /\ savePc' = "none"
    /\ UNCHANGED <<editorRest, completeFile, inferVars, evalVars, webVars, calPc, calData,
                   observed, versions>>

\* calibrate_lot, lines 187-198: open(spot_layout_path, 'w')
CalibrateOpen ==
    /\ calPc = "idle"
    /\ savePc # "layout"
    /\ \E body \in CalibrateBodies :
          /\ calData' = body
          /\ versions' = versions \cup {body}
    /\ layoutFile' = OpenForWrite
    /\ calPc' = "writing"
    /\ UNCHANGED <<editorRest, session, completeFile, inferVars, evalVars, webVars, savePc, observed>>

\* Line 199
CalibrateFlush ==
    /\ calPc = "writing"
    /\ Len(layoutFile.items) < Len(calData)
    /\ layoutFile' = Flush(layoutFile, calData)
    /\ UNCHANGED <<editorRest, session, completeFile, inferVars, evalVars, webVars, saveVars>>

\* Lines 199-204: the with block ends
CalibrateClose ==
    /\ calPc = "writing"
    /\ layoutFile' = Dump(calData)
    /\ calPc' = "idle"
    /\ UNCHANGED <<editorRest, session, completeFile, inferVars, evalVars, webVars, savePc,
                   calData, observed, versions>>

\* quick_fix_detection lines 17-18, in a process of its own: what
\* json.load(f) is given.
InferenceRead ==
    /\ layoutFile.exists
    /\ observed' = [by |-> "inference", file |-> layoutFile]
    /\ UNCHANGED <<editorVars, inferVars, evalVars, webVars, savePc, calPc, calData, versions>>

\* get_lot_spots lines 125-131, a handler of the web server: it does not
\* run inside calibrate_lot.
ListingRead ==
    /\ calPc = "idle"
    /\ layoutFile.exists
    /\ observed' = [by |-> "listing", file |-> layoutFile]
    /\ UNCHANGED <<editorVars, inferVars, evalVars, webVars, savePc, calPc, calData, versions>>

SaveNext ==
    \/ SaveOpenComplete
    \/ SaveFlushComplete
    \/ SaveOpenLayout
    \/ SaveFlushLayout
    \/ SaveCloseLayout
    \/ CalibrateOpen
    \/ CalibrateFlush
    \/ CalibrateClose
    \/ InferenceRead
    \/ ListingRead

SpecSave == SaveInit /\ [][SaveNext]_vars

\* C9: a reader of data/spot_layout.json gets a complete collection that
\* was saved: the previous one or the new one, never an empty, truncated or
\* partly written file.
C9_SaveAtomicForReaders ==
    observed.by # "none" =>
        /\ observed.file.complete
        /\ observed.file.items \in versions

\* ------------------------------------------------------------------------
\* The web server: websocket connections and manual overrides
\* ------------------------------------------------------------------------
\* The handlers run on one event loop: a handler runs until its next await,
\* so a broadcast gives way to other handlers at each send_json.
\* Overrides broadcast in one run.
MaxOverrides == 2

\* Periodic updates sent in one run.
MaxUpdates == 1

\* websocket_endpoint: update_message (timestamp and spots left out).
UpdateMessage ==
    [type |-> "status_update", lot_id |-> "main_lot", spot_id |-> "", status |-> ""]

\* The status values clients put in an override request.
OverrideStatuses == {"FREE", "OCCUPIED", "UNKNOWN", "free", "RESERVED"}

OverrideSpots == {"spot_1"}

\* manual_override: override_message (the timestamp is left out).
OverrideMessage(lot_id, spot_id, status) ==
    [type |-> "manual_override", lot_id |-> lot_id, spot_id |-> spot_id,
     status |-> status]

\* The check of line 212 letting every status through.
RecognizedAlways(status) == TRUE

\* Line 212: status in ["FREE", "OCCUPIED", "UNKNOWN"].
Recognized(status) == status \in {"FREE", "OCCUPIED", "UNKNOWN"}

\* list.remove(x): the list without the first x.
Remove(list, x) ==
    LET i == CHOOSE k \in 1..Len(list) :
                 list[k] = x /\ \A j \in 1..(k - 1) : list[j] # x
    IN  SubSeq(list, 1, i - 1) \o SubSeq(list, i + 1, Len(list))

WebInit ==
    /\ EditorIdle("off")
    /\ layoutFile = NoFile
    /\ InferIdle("off")
    /\ config = SampleConfig
    /\ SaveIdle
    /\ EvalIdle
    /\ WebIdle

webRest == <<editorVars, inferVars, saveVars, evalVars>>

\* What a broadcast in progress keeps.
bcVars == <<overridePc, bcIndex, bcMessage, bcStart, bcSent, bcFailed>>

\* Lines 260-261: ConnectionManager.connect, and the handler enters its loop.
Connect ==
    \E ws \in Sockets \ accepted :
        /\ accepted' = accepted \cup {ws}
        /\ active_connections' = Append(active_connections, ws)
        /\ handlerPc' = [handlerPc EXCEPT ![ws] = "running"]
        /\ UNCHANGED <<webRest, broken, inbox, bcVars, response, overrides,
                       updates>>

\* A client goes away: send_json on its websocket raises from now on.
ClientGone ==
    \E ws \in accepted \ broken :
        /\ broken' = broken \cup {ws}
        /\ UNCHANGED <<webRest, active_connections, accepted, inbox, bcVars,
                       response, overrides, handlerPc, updates>>

\* manual_override up to its await: the request is refused with 400, or the
\* message is built and broadcast starts on the list.
ManualOverride ==
    \E spot_id \in OverrideSpots, status \in OverrideStatuses :
        /\ overridePc = "idle"
        /\ overrides < MaxOverrides
        /\ IF ~Recognized(status)
           THEN /\ response' = [code |-> 400, status |-> status]
                /\ UNCHANGED <<bcVars, overrides>>
           ELSE /\ response' = [code |-> 0, status |-> status]
                /\ overridePc' = "broadcasting"
                /\ bcIndex' = 0
                /\ bcMessage' = OverrideMessage("main_lot", spot_id, status)
                /\ overrides' = overrides + 1
                /\ bcStart' = active_connections
                /\ bcSent' = [ws \in Sockets |-> 0]
                /\ bcFailed' = {}
        /\ UNCHANGED <<webRest, active_connections, accepted, broken, inbox,
                       handlerPc, updates>>

\* One turn of the loop of broadcast: the iterator yields the element at its
\* position in the list as it is now, and the send gets through or the
\* connection is removed from the list.
BroadcastSend ==
    /\ overridePc = "broadcasting"
    /\ bcIndex < Len(active_connections)
    /\ LET connection == active_connections[bcIndex + 1]
       IN  IF connection \in broken
           THEN /\ active_connections' = Remove(active_connections, connection)
                /\ bcFailed' = bcFailed \cup {connection}
                /\ UNCHANGED <<inbox, bcSent>>
           ELSE /\ inbox' = [inbox EXCEPT
                                ![connection] = Append(@, bcMessage)]
                /\ bcSent' = [bcSent EXCEPT ![connection] = @ + 1]
                /\ UNCHANGED <<active_connections, bcFailed>>
    /\ bcIndex' = bcIndex + 1
    /\ UNCHANGED <<webRest, accepted, broken, overridePc, bcMessage, bcStart,
                   response, overrides, handlerPc, updates>>

\* The iterator is exhausted: broadcast returns and manual_override answers.
OverrideReturn ==
    /\ overridePc = "broadcasting"
    /\ bcIndex >= Len(active_connections)
    /\ overridePc' = "idle"
    /\ response' = [code |-> 200, status |-> bcMessage.status]
    /\ UNCHANGED <<webRest, active_connections, accepted, broken, inbox, bcIndex,
                   bcMessage, bcStart, bcSent, bcFailed, overrides, handlerPc,
                   updates>>

\* Lines 263-287, one turn of the loop after the sleep: the update is
\* computed and sent, or an exception (reading the layout, process_frame,
\* send_json on a websocket that is gone) ends the loop with break, and the
\* handler returns without manager.disconnect.  The server closes the
\* websocket of a handler that has returned.
PeriodicUpdate ==
    \E ws \in Sockets, raises \in BOOLEAN :
        /\ handlerPc[ws] = "running"
        /\ IF raises \/ ws \in broken
           THEN /\ handlerPc' = [handlerPc EXCEPT ![ws] = "ended"]
                /\ broken' = broken \cup {ws}
                /\ UNCHANGED <<inbox, updates>>
           ELSE /\ updates < MaxUpdates
                /\ inbox' = [inbox EXCEPT ![ws] = Append(@, UpdateMessage)]
                /\ updates' = updates + 1
                /\ UNCHANGED <<handlerPc, broken>>
        /\ UNCHANGED <<webRest, active_connections, accepted, bcVars, response,
                       overrides>>

\* Lines 289-290: WebSocketDisconnect reaches the outer try of the handler
\* of a client that is gone, and manager.disconnect removes the websocket;
\* list.remove raises ValueError when the websocket is not in the list.
HandlerDisconnect ==
    \E ws \in broken :
        /\ handlerPc[ws] = "running"
        /\ IF \E k \in 1..Len(active_connections) : active_connections[k] = ws
           THEN /\ active_connections' = Remove(active_connections, ws)
                /\ handlerPc' = [handlerPc EXCEPT ![ws] = "closed"]
           ELSE /\ handlerPc' = [handlerPc EXCEPT ![ws] = "error"]
                /\ UNCHANGED active_connections
        /\ UNCHANGED <<webRest, accepted, broken, inbox, bcVars, response,
                       overrides, updates>>

WebNext ==
    \/ Connect
    \/ ClientGone
    \/ ManualOverride
    \/ BroadcastSend
    \/ OverrideReturn
    \/ PeriodicUpdate
    \/ HandlerDisconnect

SpecWeb == WebInit /\ [][WebNext]_vars

\* The messages the clients have received.
Received == UNION {{inbox[ws][i] : i \in 1..Len(inbox[ws])} : ws \in Sockets}

ClosedStatuses == {"FREE", "OCCUPIED", "UNKNOWN"}

\* C17: an override request with a status outside FREE, OCCUPIED, UNKNOWN is
\* answered with the error 400 and starts no broadcast, so no client
\* receives a message for it; every manual_override message being broadcast
\* or received carries a status of that set.
C17_InvalidOverrideRejected ==
    /\ [][(response' # response /\ response'.status \notin ClosedStatuses) =>
             /\ response'.code = 400
             /\ overridePc' = "idle"
             /\ inbox' = inbox]_vars
    /\ [](/\ \A m \in Received :
                m.type = "manual_override" => m.status \in ClosedStatuses
          /\ overridePc = "broadcasting" => bcMessage.status \in ClosedStatuses)

\* A request with the status "free" has been refused while a healthy
\* connection was listening, and no client has received anything.
C17_Witness ==
    /\ response = [code |-> 400, status |-> "free"]
    /\ \E k \in 1..Len(active_connections) : active_connections[k] \notin broken
    /\ Received = {}

\* The websockets of a list.
Members(list) == {list[k] : k \in 1..Len(list)}

\* The step is the return of a broadcast.
BroadcastReturns == overridePc = "broadcasting" /\ overridePc' = "idle"

\* C22: when a broadcast returns, every connection that was in
\* active_connections when it started (and that its own handler has not
\* disconnected meanwhile) has had one send attempted on it; exactly those
\* whose send failed have been removed from the list, and each of the others
\* has received the message once.
C22_BroadcastReachesEveryConnection ==
    [][BroadcastReturns =>
          \A ws \in Members(bcStart) :
              handlerPc'[ws] # "closed" =>
                  /\ ws \in bcFailed' \/ bcSent'[ws] = 1
                  /\ ws \in bcFailed' <=> ws \notin Members(active_connections')
                  /\ ws \notin bcFailed' => bcSent'[ws] = 1]_vars

\* C23: a websocket whose handler has terminated, by the disconnect of its
\* client or by an error during a periodic update, is not in
\* active_connections; the removal by the handler never fails on a
\* websocket a broadcast has removed already; the list holds only
\* websockets whose handler is running.
C23_ListHoldsRunningHandlersOnly ==
    /\ \A ws \in Sockets :
          /\ handlerPc[ws] \in {"ended", "closed", "error"} =>
                ws \notin Members(active_connections)
          /\ handlerPc[ws] # "error"
    /\ \A ws \in Members(active_connections) : handlerPc[ws] = "running"

Init == EditorInit

Next ==
    \/ StartSession
    \/ AddPoint
    \/ ResetCurrent
    \/ UndoLastSpot
    \/ SaveAndExit
    \/ QuitWithoutSaving

Spec == Init /\ [][Next]_vars

====
